---- MODULE Spec2Model ----
(***************************************************************************)
(* A model of scripts/parse-results.py (parseLog, main) and of             *)
(* scripts/analyze-results.py (fetchResults, StdevFunc, main and the four  *)
(* query modes) of psl-grounding-benchmarks.                               *)
(*                                                                         *)
(* Python values are modelled as records [kind, n, s]: None, an int or a   *)
(* str.  A log line is described by what the four regular expressions of   *)
(* parseLog find in it.                                                    *)
(***************************************************************************)
EXTENDS Integers, Sequences, FiniteSets, TLC

\* ------------------------------------------------------------------ bounds
MaxLines == 3
MaxSteps == 5
MaxRows == 2

\* ----------------------------------------------------------- Python values
None == [kind |-> "none", n |-> 0, s |-> ""]
PyInt(i) == [kind |-> "int", n |-> i, s |-> ""]
PyStr(t) == [kind |-> "str", n |-> 0, s |-> t]
\* a local variable that has not been assigned yet
Unbound == [kind |-> "unbound", n |-> 0, s |-> ""]

\* ================================================================ parseLog
\* HEADER of parse-results.py
HEADER ==
    <<"experiment", "example", "backend", "split", "iteration",
      "memory", "runtime", "grounding_time">>

\* The integers the logs of the model carry.
Stamps == {100, 150}
MemoryMax == {5, 7}

\* A line of the log, after strip(): blank, or what the regular expressions
\* find in it.  ts is the integer of the leading `<int> [`, None when the
\* line does not start that way; start and complete tell whether the line
\* contains the grounding-start and the grounding-complete marker; mem is
\* the Max capture of the memory summary, None when the line is not one.
BlankLine == [blank |-> TRUE, ts |-> None, start |-> FALSE, complete |-> FALSE, mem |-> None]

Lines ==
    {BlankLine} \cup
    [blank : {FALSE}, ts : {None} \cup {PyInt(t) : t \in Stamps}, start : BOOLEAN,
     complete : BOOLEAN, mem : {None} \cup {PyInt(m) : m \in MemoryMax}]

\* The `key::value` pairs re.findall finds in a path, in order.
Paths ==
    { <<>>,
      << <<"experiment", "e1">>, <<"example", "ex1">>, <<"backend", "Dask">>,
         <<"backend", "Postgres">>, <<"split", "0">>, <<"iteration", "0">> >> }

\* results[key] = value for every pair of the path, later pairs overwriting
RECURSIVE PathIdentity(_)
PathIdentity(pairs) ==
    IF pairs = <<>> THEN <<>>
    ELSE LET n == Len(pairs)
             rest == PathIdentity(SubSeq(pairs, 1, n - 1))
         IN  (pairs[n][1] :> PyStr(pairs[n][2])) @@ rest

\* The state of the scan: the locals time and groundingStartTime, the dict
\* results, and whether an exception has been raised.
ScanInit(pairs) ==
    [time |-> Unbound, groundingStartTime |-> None,
     results |-> PathIdentity(pairs), raised |-> FALSE]

Put(d, k, v) == (k :> v) @@ d

\* MatchTime with a fault: a line without a timestamp resets the time
MatchTimeReset(st, line) ==
    IF line.ts # None THEN [st EXCEPT !.time = line.ts]
    ELSE [st EXCEPT !.time = PyInt(0)]

\* match = re.search(r'^(\d+)\s+\[', line); time = int(match.group(1))
MatchTime(st, line) ==
    IF line.ts # None THEN [st EXCEPT !.time = line.ts] ELSE st

\* the 'Grounding out model.' marker: groundingStartTime = time
MatchGroundingStart(st, line) ==
    IF st.raised \/ ~line.start THEN st
    ELSE IF st.time = Unbound THEN [st EXCEPT !.raised = TRUE]
    ELSE [st EXCEPT !.groundingStartTime = st.time]

\* MatchGroundingComplete with a fault: grounding_time is set even when no
\* grounding start was seen
MatchGroundingCompleteAlways(st, line) ==
    IF st.raised \/ ~line.complete THEN st
    ELSE IF st.time = Unbound THEN [st EXCEPT !.raised = TRUE]
    ELSE LET r1 == Put(st.results, "runtime", st.time)
             g  == IF st.groundingStartTime = None THEN 0
                   ELSE st.groundingStartTime.n
         IN  [st EXCEPT !.results = Put(r1, "grounding_time", PyInt(st.time.n - g))]

\* the 'Grounding complete.' marker: runtime and, if started, grounding_time
MatchGroundingComplete(st, line) ==
    IF st.raised \/ ~line.complete THEN st
    ELSE IF st.time = Unbound THEN [st EXCEPT !.raised = TRUE]
    ELSE LET r1 == Put(st.results, "runtime", st.time)
         IN  IF st.groundingStartTime # None
             THEN [st EXCEPT !.results =
                      Put(r1, "grounding_time",
                          PyInt(st.time.n - st.groundingStartTime.n))]
             ELSE [st EXCEPT !.results = r1]

\* MatchMemory with a fault: the largest Max capture is kept
MatchMemoryMax(st, line) ==
    IF st.raised \/ line.mem = None THEN st
    ELSE IF "memory" \in DOMAIN st.results /\ st.results["memory"].n > line.mem.n
         THEN st
         ELSE [st EXCEPT !.results = Put(st.results, "memory", line.mem)]

\* the memory summary line: results['memory'] = int(match.group(2))
MatchMemory(st, line) ==
    IF st.raised \/ line.mem = None THEN st
    ELSE [st EXCEPT !.results = Put(st.results, "memory", line.mem)]

\* one iteration of `for line in file`
ScanLine(st, line) ==
    IF line.blank THEN st
    ELSE MatchMemory(
           MatchGroundingComplete(
             MatchGroundingStart(MatchTime(st, line), line), line), line)

\* the check for an unfinished run and the return
ParseReturn(st) ==
    IF "memory" \notin DOMAIN st.results THEN [kind |-> "none", d |-> <<>>]
    ELSE [kind |-> "dict", d |-> st.results]

\* =============================================================== StdevFunc
\* The floats M and S are modelled as exact fractions [num, den] in lowest
\* terms with den > 0, so rounding is left out.
RECURSIVE Gcd(_, _)
Gcd(a, b) == IF b = 0 THEN a ELSE Gcd(b, a % b)
Abs(a) == IF a < 0 THEN -a ELSE a
Frac(num, den) ==
    LET g == Gcd(Abs(num), Abs(den))
        sg == IF den < 0 THEN -1 ELSE 1
    IN  [num |-> sg * (num \div g), den |-> sg * (den \div g)]
FracAdd(a, b) == Frac(a.num * b.den + b.num * a.den, a.den * b.den)
FracSub(a, b) == Frac(a.num * b.den - b.num * a.den, a.den * b.den)
FracMul(a, b) == Frac(a.num * b.num, a.den * b.den)
FracDiv(a, b) == Frac(a.num * b.den, a.den * b.num)
FracOfInt(i) == [num |-> i, den |-> 1]

\* the values STDEV is stepped with: a column's integers, or NULL
StepValues == {None} \cup {PyInt(v) : v \in {1, 4}}

\* StdevFunc.__init__
StdevNew == [M |-> FracOfInt(0), S |-> FracOfInt(0), k |-> 1]

\* StdevStep with a fault: a None value advances k
StdevStepCountsNull(self, value) ==
    IF value = None THEN [self EXCEPT !.k = self.k + 1]
    ELSE LET v  == FracOfInt(value.n)
             tM == self.M
             M1 == FracAdd(tM, FracDiv(FracSub(v, tM), FracOfInt(self.k)))
         IN  [M |-> M1,
              S |-> FracAdd(self.S, FracMul(FracSub(v, tM), FracSub(v, M1))),
              k |-> self.k + 1]

\* StdevFunc.step
StdevStep(self, value) ==
    IF value = None THEN self
    ELSE LET v  == FracOfInt(value.n)
             tM == self.M
             M1 == FracAdd(tM, FracDiv(FracSub(v, tM), FracOfInt(self.k)))
         IN  [M |-> M1,
              S |-> FracAdd(self.S, FracMul(FracSub(v, tM), FracSub(v, M1))),
              k |-> self.k + 1]

\* StdevFunc.finalize: None, or the float math.sqrt(sq), kept as its
\* radicand sq
NoValue == [kind |-> "none", sq |-> FracOfInt(0)]
SqrtOf(f) == [kind |-> "float", sq |-> f]

\* StdevFinalize with a fault: the threshold is one higher
StdevFinalizeNeedsThree(self) ==
    IF self.k < 4 THEN NoValue
    ELSE SqrtOf(FracDiv(self.S, FracOfInt(self.k - 2)))

\* StdevFunc.finalize
StdevFinalize(self) ==
    IF self.k < 3 THEN NoValue
    ELSE SqrtOf(FracDiv(self.S, FracOfInt(self.k - 2)))

\* ========================================================= text and tables
\* A tab-separated text is the sequence of its non-blank lines, each the
\* sequence of its cells; a cell is the str it holds.  A float that main
\* prints is kept as the float itself instead of its decimal digits.
PyFloat(f) == [kind |-> "float", n |-> 0, s |-> "", f |-> f]

IntLiterals == 0..150
IntText == [i \in IntLiterals |-> ToString(i)]
IntTexts == {IntText[i] : i \in IntLiterals}

\* str(value)
Str(value) ==
    CASE value.kind = "none" -> PyStr("None")
      [] value.kind = "int" -> PyStr(ToString(value.n))
      [] value.kind = "str" -> value
      [] OTHER -> value

Range(seq) == {seq[i] : i \in 1..Len(seq)}
IndexOf(seq, x) == CHOOSE i \in 1..Len(seq) : seq[i] = x
NonNull(values) == SelectSeq(values, LAMBDA v : v # None)

\* BOOL_COLUMNS, INT_COLUMNS, FLOAT_COLUMNS
BOOL_COLUMNS == {}
INT_COLUMNS == {"iteration", "groundrules", "memory", "runtime", "grounding_time"}
FLOAT_COLUMNS == {}

\* the conversion of one cell in fetchResults; int() of a text that is not
\* an integer literal raises ValueError
ValueError == [kind |-> "ValueError", n |-> 0, s |-> ""]

\* (BOOL_COLUMNS and FLOAT_COLUMNS are empty: their branches never run)
ConvertCell(column, cell) ==
    IF cell.s = "" THEN None
    ELSE IF column \in INT_COLUMNS THEN
         IF cell.s \in IntTexts
         THEN PyInt(CHOOSE i \in IntLiterals : IntText[i] = cell.s)
         ELSE ValueError
    ELSE cell

\* fetchResults of analyze-results.py: the header and the converted rows, or
\* the exception of the first bad row
FetchResults(text) ==
    IF text = <<>> THEN [error |-> "", header |-> <<>>, rows |-> <<>>]
    ELSE LET header == [i \in 1..Len(text[1]) |-> text[1][i].s]
             lines  == Tail(text)
             Short(r) == Len(lines[r]) # Len(header)
             Conv(r) == [i \in 1..Len(header) |-> ConvertCell(header[i], lines[r][i])]
             Bad(r) == Short(r) \/ ValueError \in Range(Conv(r))
             bad == {r \in 1..Len(lines) : Bad(r)}
         IN  IF bad # {}
             THEN LET r == CHOOSE x \in bad : \A y \in bad : x <= y
                  IN  [error |-> IF Short(r) THEN "AssertionError" ELSE "ValueError",
                       header |-> header, rows |-> <<>>]
             ELSE [error |-> "", header |-> header,
                   rows |-> [r \in 1..Len(lines) |-> Conv(r)]]

\* the table Stats: its columns and its rows as column -> value
StatsTable(header, rows) ==
    [columns |-> header,
     rows |-> [r \in 1..Len(rows) |->
                 [c \in Range(header) |-> rows[r][IndexOf(header, c)]]]]

\* ------------------------------------------------------------ SQL values
\* Strings of the model in sqlite's BINARY collation order.
Collation ==
    <<"0", "08-cora", "1", "Dask", "None", "Postgres", "cora", "e1", "ex1">>
CollationRank(t) == CHOOSE i \in 1..Len(Collation) : Collation[i] = t

\* ORDER BY on one value: NULL first, then numbers, then text
SqlLess(a, b) ==
    CASE a.kind = "none" -> b.kind # "none"
      [] a.kind = "int" -> \/ b.kind = "str"
                           \/ (b.kind = "int" /\ a.n < b.n)
      [] a.kind = "str" -> b.kind = "str" /\ CollationRank(a.s) < CollationRank(b.s)
      [] OTHER -> FALSE

RECURSIVE RowLess(_, _, _)
RowLess(r1, r2, cols) ==
    IF cols = <<>> THEN FALSE
    ELSE \/ SqlLess(r1[Head(cols)], r2[Head(cols)])
         \/ /\ r1[Head(cols)] = r2[Head(cols)]
            /\ RowLess(r1, r2, Tail(cols))

\* ORDER BY cols.  SQL leaves the order of rows that tie open; here they keep
\* the order they had, and nothing below reads the order of tied rows.
RECURSIVE OrderBy(_, _)
OrderBy(rows, cols) ==
    IF rows = <<>> THEN <<>>
    ELSE LET n == Len(rows)
             sorted == OrderBy(SubSeq(rows, 1, n - 1), cols)
             x == rows[n]
             before == SelectSeq(sorted, LAMBDA r : ~RowLess(x, r, cols))
             after == SelectSeq(sorted, LAMBDA r : RowLess(x, r, cols))
         IN  before \o <<x>> \o after

\* a = b in a join or WHERE: never true of NULL
SqlEq(a, b) == a # None /\ b # None /\ a = b

\* x / CAST(y AS REAL): NULL of a NULL operand or a zero divisor
SqlDivide(x, y) ==
    IF x = None \/ y = None \/ y.n = 0 THEN None
    ELSE PyFloat(Frac(x.n, y.n))

RECURSIVE Sum(_)
Sum(values) == IF values = <<>> THEN 0 ELSE Head(values).n + Sum(Tail(values))

\* AVG(column)
Avg(values) ==
    LET vs == NonNull(values)
    IN  IF vs = <<>> THEN None ELSE PyFloat(Frac(Sum(vs), Len(vs)))

RECURSIVE Stepped(_)
\* the aggregate after stepping the given values in order
Stepped(values) ==
    IF values = <<>> THEN StdevNew
    ELSE StdevStep(Stepped(SubSeq(values, 1, Len(values) - 1)), values[Len(values)])

\* STDEV(column)
Stdev(values) == StdevFinalize(Stepped(values))

Column(rows, c) == [r \in 1..Len(rows) |-> rows[r][c]]

RECURSIVE SetToSeq(_)
SetToSeq(S) ==
    IF S = {} THEN <<>>
    ELSE LET x == CHOOSE y \in S : TRUE IN <<x>> \o SetToSeq(S \ {x})

\* ------------------------------------------------------------ the queries
GROUP_COLS == <<"backend", "example", "experiment">>

EXAMPLE_RANK_IDS ==
    ("stance-createdebate" :> "01-stance-createdebate") @@
    ("simple-acquaintances" :> "02-simple-acquaintances") @@
    ("stance-4forums" :> "03-stance-4forums") @@
    ("trust-prediction" :> "04-trust-prediction") @@
    ("friendship" :> "05-friendship") @@
    ("epinions" :> "06-epinions") @@
    ("citeseer" :> "07-citeseer") @@
    ("cora" :> "08-cora") @@
    ("user-modeling" :> "09-user-modeling") @@
    ("knowledge-graph-identification" :> "10-knowledge-graph-identification") @@
    ("yelp" :> "11-yelp") @@
    ("social-network-analysis" :> "12-social-network-analysis") @@
    ("entity-resolution" :> "13-entity-resolution") @@
    ("jester" :> "14-jester") @@
    ("lastfm" :> "15-lastfm")

NoSuchColumn == [error |-> "OperationalError", columns |-> <<>>, rows |-> <<>>]

\* BASE_QUERY
BaseColumns == {"runtime"} \cup Range(GROUP_COLS)
BASE_QUERY(table) ==
    IF ~(BaseColumns \subseteq Range(table.columns)) THEN NoSuchColumn
    ELSE [error |-> "", columns |-> table.columns,
          rows |-> OrderBy(SelectSeq(table.rows, LAMBDA r : r["runtime"] # None),
                           GROUP_COLS)]

\* AGGREGATE_QUERY
AggregateColumns ==
    BaseColumns \cup {"split", "groundrules", "memory", "grounding_time"}
AggregateHeader ==
    <<"id", "backend", "example", "experiment", "numIterations", "groundrules",
      "memory_mean", "memory_std", "runtime_mean", "runtime_std",
      "grounding_time_mean", "grounding_time_std">>
AGGREGATE_QUERY(table) ==
    IF ~(AggregateColumns \subseteq Range(table.columns)) THEN NoSuchColumn
    ELSE LET S == BASE_QUERY(table).rows
             Ranked(r) == r["example"].kind = "str"
                          /\ r["example"].s \in DOMAIN EXAMPLE_RANK_IDS
             joined == SelectSeq(S, Ranked)
             Key(r) == <<r["backend"], r["example"], r["experiment"]>>
             keys == {Key(joined[i]) : i \in 1..Len(joined)}
             Group(k) == SelectSeq(joined, LAMBDA r : Key(r) = k)
             Out(k) ==
                 LET g == Group(k)
                 IN  [id |-> PyStr(EXAMPLE_RANK_IDS[k[2].s]),
                      backend |-> k[1], example |-> k[2], experiment |-> k[3],
                      numIterations |-> PyInt(Len(NonNull(Column(g, "split")))),
                      groundrules |-> Avg(Column(g, "groundrules")),
                      memory_mean |-> Avg(Column(g, "memory")),
                      memory_std |-> Stdev(Column(g, "memory")),
                      runtime_mean |-> Avg(Column(g, "runtime")),
                      runtime_std |-> Stdev(Column(g, "runtime")),
                      grounding_time_mean |-> Avg(Column(g, "grounding_time")),
                      grounding_time_std |-> Stdev(Column(g, "grounding_time"))]
             ks == SetToSeq(keys)
         IN  [error |-> "", columns |-> AggregateHeader,
              rows |-> OrderBy([i \in 1..Len(ks) |-> Out(ks[i])],
                               <<"id", "example", "backend", "experiment">>)]

\* RELATIVE_QUERY
JoinColumns == <<"example", "experiment", "split", "iteration">>
RelativeColumns ==
    BaseColumns \cup Range(JoinColumns) \cup {"groundrules", "memory", "grounding_time"}
RelativeHeader ==
    <<"backend", "example", "experiment", "split", "iteration", "groundrules",
      "relative_memory", "relative_runtime", "relative_grounding_time">>
Using(r1, r2) == \A c \in Range(JoinColumns) : SqlEq(r1[c], r2[c])
RELATIVE_QUERY(table) ==
    IF ~(RelativeColumns \subseteq Range(table.columns)) THEN NoSuchColumn
    ELSE LET S == BASE_QUERY(table).rows
             n == Len(S)
             pairs == SetToSeq({p \in (1..n) \X (1..n) :
                         /\ Using(S[p[1]], S[p[2]])
                         /\ SqlEq(S[p[2]]["backend"], PyStr("Postgres"))})
             Out(p) ==
                 LET S1 == S[p[1]]
                     S2 == S[p[2]]
                 IN  [backend |-> S1["backend"], example |-> S1["example"],
                      experiment |-> S1["experiment"], split |-> S1["split"],
                      iteration |-> S1["iteration"], groundrules |-> S1["groundrules"],
                      relative_memory |-> SqlDivide(S1["memory"], S2["memory"]),
                      relative_runtime |-> SqlDivide(S1["runtime"], S2["runtime"]),
                      relative_grounding_time |->
                          SqlDivide(S1["grounding_time"], S2["grounding_time"])]
         IN  [error |-> "", columns |-> RelativeHeader,
              rows |-> OrderBy([i \in 1..Len(pairs) |-> Out(pairs[i])],
                               <<"backend", "example", "experiment", "split", "iteration">>)]

\* RUN_MODES (RELATIVE_AGGREGATE is not modelled)
RUN_MODES == {"BASE", "AGGREGATE", "RELATIVE"}
RunQuery(mode, table) ==
    CASE mode = "BASE" -> BASE_QUERY(table)
      [] mode = "AGGREGATE" -> AGGREGATE_QUERY(table)
      [] mode = "RELATIVE" -> RELATIVE_QUERY(table)

\* what main prints: the header line and one line per row, cells by str()
Printed(columns, rows) ==
    <<[i \in 1..Len(columns) |-> PyStr(columns[i])]>> \o
    [r \in 1..Len(rows) |-> [i \in 1..Len(columns) |-> Str(rows[r][columns[i]])]]

\* main(mode, resultsPath) of analyze-results.py: how it ended, the rows of
\* the query and the text printed
NoRun == [status |-> "none", columns |-> <<>>, rows |-> <<>>, text |-> <<>>]
AnalyzeMain(mode, text) ==
    LET f == FetchResults(text)
    IN  IF f.error # "" THEN [NoRun EXCEPT !.status = f.error]
        ELSE IF Len(f.rows) = 0 THEN [NoRun EXCEPT !.status = "no data"]
        ELSE LET q == RunQuery(mode, StatsTable(f.header, f.rows))
             IN  IF q.error # "" THEN [NoRun EXCEPT !.status = q.error]
                 ELSE [status |-> "ok", columns |-> q.columns, rows |-> q.rows,
                       text |-> Printed(q.columns, q.rows)]

\* ====================================================== parse-results main
RECURSIVE ScanAll(_, _)
ScanAll(st, lines) ==
    IF lines = <<>> \/ st.raised THEN st
    ELSE ScanAll(ScanLine(st, Head(lines)), Tail(lines))

\* parseLog(logPath) on a whole file
ParseLog(log) == ScanAll(ScanInit(log.path), log.lines)

\* main of parse-results.py on the logs glob finds: nothing printed when no
\* run is complete, else the header and a row per complete run, a missing
\* key printed as ''
ParseMain(logs) ==
    LET runs == SelectSeq([i \in 1..Len(logs) |-> ParseReturn(ParseLog(logs[i]))],
                          LAMBDA r : r.kind = "dict")
        Cell(run, key) == IF key \in DOMAIN run.d THEN Str(run.d[key]) ELSE PyStr("")
    IN  IF runs = <<>> THEN <<>>
        ELSE <<[i \in 1..Len(HEADER) |-> PyStr(HEADER[i])]>> \o
             [r \in 1..Len(runs) |-> [i \in 1..Len(HEADER) |-> Cell(runs[r], HEADER[i])]]

\* ------------------------------------------------------------- the inputs
\* the header parse-results.py prints, and the one with a groundrules column
HeaderWithGroundrules ==
    <<"experiment", "example", "backend", "split", "iteration", "groundrules",
      "memory", "runtime", "grounding_time">>

Texts(S) == {PyStr(t) : t \in S}
RowTexts(header) ==
    IF header = HEADER
    THEN {<<e, x, b, sp, it, m, r, g>> :
             e \in Texts({"e1"}), x \in Texts({"cora", "ex1"}),
             b \in Texts({"Postgres", "Dask"}), sp \in Texts({"0", ""}),
             it \in Texts({"0", "1"}), m \in Texts({"5"}),
             r \in Texts({"150", ""}), g \in Texts({"50", ""})}
    ELSE {<<e, x, b, sp, it, gr, m, r, g>> :
             e \in Texts({"e1"}), x \in Texts({"cora", "ex1"}),
             b \in Texts({"Postgres", "Dask"}), sp \in Texts({"0", ""}),
             it \in Texts({"0", "1"}), gr \in Texts({"3"}), m \in Texts({"5"}),
             r \in Texts({"150", ""}), g \in Texts({"50", ""})}

\* a row that is one cell short
ShortRow == <<PyStr("e1")>>

\* the empty file, and a header line of one of the given headers followed by
\* up to MaxRows rows
InputTexts(headers) ==
    {<<>>} \cup
    UNION {{<<[i \in 1..Len(h) |-> PyStr(h[i])]>> \o rows :
              rows \in UNION {[1..n -> RowTexts(h) \cup {ShortRow}] : n \in 0..MaxRows}} :
           h \in headers}

\* the logs of two runs that differ in the backend only
RunPath(backend) ==
    << <<"experiment", "e1">>, <<"example", "cora">>, <<"backend", backend>>,
       <<"split", "0">>, <<"iteration", "0">> >>
RunLines ==
    {[blank |-> FALSE, ts |-> PyInt(100), start |-> TRUE, complete |-> FALSE, mem |-> None],
     [blank |-> FALSE, ts |-> PyInt(150), start |-> FALSE, complete |-> TRUE, mem |-> None],
     [blank |-> FALSE, ts |-> None, start |-> FALSE, complete |-> TRUE, mem |-> None],
     [blank |-> FALSE, ts |-> None, start |-> FALSE, complete |-> FALSE, mem |-> PyInt(5)]}
RunLogs(backend) ==
    {[path |-> RunPath(backend), lines |-> ls] :
        ls \in UNION {[1..n -> RunLines] : n \in 0..MaxLines}}

VARIABLES
    path,       \* parseLog: the key::value pairs of logPath
    scanned,    \* parseLog: the lines read from the file so far
    scan,       \* parseLog: time, groundingStartTime, results, raised
    pc,         \* parseLog: "scan", "returned" or "raised"
    ret,        \* parseLog: what it returned
    agg,        \* StdevFunc: the aggregate object (M, S, k)
    stepped,    \* StdevFunc: the values step was called with so far
    apc,        \* StdevFunc: "step" or "final"
    final,      \* StdevFunc: what finalize returned
    logs,       \* parse-results main: the logs under the results directory
    ppc,        \* parse-results main: "logs", "parsed" or "raised"
    mode,       \* analyze-results main: the mode argument
    infile,     \* analyze-results main: the text at resultsPath
    outcome,    \* analyze-results main: how it ended and what it printed
    mpc,        \* analyze-results main: "ready" or "done"
    reruns,     \* how often printed output was fed back as the input
    firstOut    \* the outcome of the run whose output was fed back

parseVars == <<path, scanned, scan, pc, ret>>
stdevVars == <<agg, stepped, apc, final>>
pipeVars == <<logs, ppc>>
mainVars == <<mode, infile, outcome, mpc, reruns, firstOut>>
vars == <<parseVars, stdevVars, pipeVars, mainVars>>

ParseIdle ==
    /\ path = <<>>
    /\ scanned = <<>>
    /\ scan = ScanInit(<<>>)
    /\ pc = "idle"
    /\ ret = [kind |-> "pending", d |-> <<>>]

StdevIdle ==
    /\ agg = StdevNew
    /\ stepped = <<>>
    /\ apc = "idle"
    /\ final = NoValue

PipeIdle ==
    /\ logs = <<>>
    /\ ppc = "idle"

MainIdle ==
    /\ mode = "BASE"
    /\ infile = <<>>
    /\ outcome = NoRun
    /\ mpc = "idle"
    /\ reruns = 0
    /\ firstOut = NoRun

\* ----------------------------------------------------- parseLog on one log
ParseInit ==
    /\ path \in Paths
    /\ scanned = <<>>
    /\ scan = ScanInit(path)
    /\ pc = "scan"
    /\ ret = [kind |-> "pending", d |-> <<>>]
    /\ StdevIdle
    /\ PipeIdle
    /\ MainIdle

\* the loop body on the next line of the file
ReadLine ==
    /\ pc = "scan"
    /\ Len(scanned) < MaxLines
    /\ \E line \in Lines :
        LET st == ScanLine(scan, line)
        IN  /\ ~st.raised
            /\ scanned' = Append(scanned, line)
            /\ scan' = st
    /\ UNCHANGED <<path, pc, ret, stdevVars, pipeVars, mainVars>>

\* the loop body raises UnboundLocalError: a marker line read while `time`
\* has never been assigned
ReadLineRaises ==
    /\ pc = "scan"
    /\ Len(scanned) < MaxLines
    /\ \E line \in Lines :
        LET st == ScanLine(scan, line)
        IN  /\ st.raised
            /\ scanned' = Append(scanned, line)
            /\ scan' = st
    /\ pc' = "raised"
    /\ UNCHANGED <<path, ret, stdevVars, pipeVars, mainVars>>

\* end of file
EndOfFile ==
    /\ pc = "scan"
    /\ pc' = "returned"
    /\ ret' = ParseReturn(scan)
    /\ UNCHANGED <<path, scanned, scan, stdevVars, pipeVars, mainVars>>

ParseNext == ReadLine \/ ReadLineRaises \/ EndOfFile

SpecParse == ParseInit /\ [][ParseNext]_vars

\* ------------------------------------------- one STDEV aggregate of a query
StdevInit ==
    /\ ParseIdle
    /\ PipeIdle
    /\ MainIdle
    /\ agg = StdevNew
    /\ stepped = <<>>
    /\ apc = "step"
    /\ final = NoValue

\* sqlite calls step with the next value of the group
Step ==
    /\ apc = "step"
    /\ Len(stepped) < MaxSteps
    /\ \E value \in StepValues :
        /\ agg' = StdevStep(agg, value)
        /\ stepped' = Append(stepped, value)
    /\ UNCHANGED <<apc, final, parseVars, pipeVars, mainVars>>

\* sqlite calls finalize at the end of the group
Finalize ==
    /\ apc = "step"
    /\ apc' = "final"
    /\ final' = StdevFinalize(agg)
    /\ UNCHANGED <<agg, stepped, parseVars, pipeVars, mainVars>>

StdevNext == Step \/ Finalize

SpecStdev == StdevInit /\ [][StdevNext]_vars

\* ------------------------------------- analyze-results.py on a given text
AnalyzeInit ==
    /\ ParseIdle
    /\ StdevIdle
    /\ PipeIdle
    /\ mode \in RUN_MODES
    /\ infile \in InputTexts({HEADER, HeaderWithGroundrules})
    /\ outcome = NoRun
    /\ mpc = "ready"
    /\ reruns = 0
    /\ firstOut = NoRun

\* main(mode, resultsPath)
Main ==
    /\ mpc = "ready"
    /\ outcome' = AnalyzeMain(mode, infile)
    /\ mpc' = "done"
    /\ UNCHANGED <<mode, infile, reruns, firstOut, parseVars, stdevVars, pipeVars>>

\* the printed output of a BASE run is saved and given to the script again
FeedBack ==
    /\ mpc = "done"
    /\ mode = "BASE"
    /\ outcome.status = "ok"
    /\ reruns = 0
    /\ firstOut' = outcome
    /\ infile' = outcome.text
    /\ outcome' = NoRun
    /\ reruns' = 1
    /\ mpc' = "ready"
    /\ UNCHANGED <<mode, parseVars, stdevVars, pipeVars>>

AnalyzeNext == Main \/ FeedBack

SpecAnalyze == AnalyzeInit /\ [][AnalyzeNext]_vars

\* ------------------- parse-results.py > results.txt, then analyze-results.py
PipelineInit ==
    /\ ParseIdle
    /\ StdevIdle
    /\ logs \in {<<a, b>> : a \in RunLogs("Postgres"), b \in RunLogs("Dask")}
                \cup {<<b, a>> : a \in RunLogs("Postgres"), b \in RunLogs("Dask")}
    /\ ppc = "logs"
    /\ mode \in RUN_MODES
    /\ infile = <<>>
    /\ outcome = NoRun
    /\ mpc = "idle"
    /\ reruns = 0
    /\ firstOut = NoRun

\* main of parse-results.py, its output redirected to the results file
ParseResults ==
    /\ ppc = "logs"
    /\ \A i \in 1..Len(logs) : ~ParseLog(logs[i]).raised
    /\ infile' = ParseMain(logs)
    /\ ppc' = "parsed"
    /\ mpc' = "ready"
    /\ UNCHANGED <<logs, mode, outcome, reruns, firstOut, parseVars, stdevVars>>

\* parseLog raises on one of the logs and parse-results.py dies
ParseResultsRaises ==
    /\ ppc = "logs"
    /\ \E i \in 1..Len(logs) : ParseLog(logs[i]).raised
    /\ ppc' = "raised"
    /\ UNCHANGED <<logs, mainVars, parseVars, stdevVars>>

PipelineNext == ParseResults \/ ParseResultsRaises \/ Main

SpecPipeline == PipelineInit /\ [][PipelineNext]_vars

\* ======================================================= claims on parseLog
\* What the claims say about a log is stated on the lines themselves.
MemoryLines(log) == {i \in 1..Len(log) : log[i].mem # None}
StartLines(log) == {i \in 1..Len(log) : log[i].start}
CompleteLines(log) == {i \in 1..Len(log) : log[i].complete}
StampedLines(log) == {i \in 1..Len(log) : log[i].ts # None}
Last(S) == CHOOSE i \in S : \A j \in S : j <= i
\* the integer of the most recent timestamped line at or before line i
StampAt(log, i) == log[Last({j \in StampedLines(log) : j <= i})].ts.n

\* C1: a log without a memory summary line makes parseLog return None and
\* never raise, whatever other lines it has.
C1_NoMemoryLineIsIncomplete ==
    MemoryLines(scanned) = {} =>
        /\ pc # "raised"
        /\ pc = "returned" => ret.kind = "none"

\* C6: the record returned for a log with a memory summary line has
\* grounding_time exactly when a grounding-complete marker was scanned after
\* (or on the line of) a grounding-start marker.
C6_GroundingTimeIffStartBeforeComplete ==
    (pc = "returned" /\ MemoryLines(scanned) # {}) =>
        /\ ret.kind = "dict"
        /\ "grounding_time" \in DOMAIN ret.d <=>
              \E i \in StartLines(scanned) :
                  \E j \in CompleteLines(scanned) : i <= j

C6_Witness ==
    /\ pc = "returned"
    /\ ret.kind = "dict"
    /\ "grounding_time" \in DOMAIN ret.d
    /\ \E j \in CompleteLines(scanned) : \A i \in StartLines(scanned) : j < i

\* C9: the memory of the returned record is the Max capture of the last
\* memory summary line of the log.
C9_LastMemoryLineWins ==
    (pc = "returned" /\ MemoryLines(scanned) # {}) =>
        /\ ret.kind = "dict"
        /\ "memory" \in DOMAIN ret.d
        /\ ret.d["memory"] = scanned[Last(MemoryLines(scanned))].mem

C9_Witness ==
    /\ pc = "returned"
    /\ ret.kind = "dict"
    /\ \E i, j \in MemoryLines(scanned) :
          /\ i < j
          /\ j = Last(MemoryLines(scanned))
          /\ scanned[i].mem.n > scanned[j].mem.n

\* C10: while scanning, the current time is the integer of the most recent
\* timestamped line (unassigned before the first one); in a returned record
\* runtime is the current time at the last grounding-complete line and
\* grounding_time, when set, is runtime minus the current time at the last
\* grounding-start line at or before that grounding-complete line.
C10_CurrentTimeCarriedForward ==
    /\ pc = "scan" =>
          scan.time = IF StampedLines(scanned) = {} THEN Unbound
                      ELSE scanned[Last(StampedLines(scanned))].ts
    /\ (pc = "returned" /\ ret.kind = "dict") =>
          LET cs == CompleteLines(scanned)
              c  == Last(cs)
              ss == {i \in StartLines(scanned) : i <= c}
          IN  /\ "runtime" \in DOMAIN ret.d <=> cs # {}
              /\ cs # {} => ret.d["runtime"] = PyInt(StampAt(scanned, c))
              /\ "grounding_time" \in DOMAIN ret.d =>
                    /\ cs # {} /\ ss # {}
                    /\ ret.d["grounding_time"] =
                          PyInt(StampAt(scanned, c) - StampAt(scanned, Last(ss)))

C10_Witness ==
    /\ pc = "returned"
    /\ ret.kind = "dict"
    /\ "grounding_time" \in DOMAIN ret.d
    /\ ret.d["grounding_time"].n = 50
    /\ scanned[Last(CompleteLines(scanned))].ts = None

C8_NullStepsIgnored ==
    /\ agg = Stepped(NonNull(stepped))
    /\ apc = "final" => final = StdevFinalize(Stepped(NonNull(stepped)))

C8_Witness ==
    /\ apc = "final"
    /\ final.kind = "float"
    /\ Len(stepped) > Len(NonNull(stepped))
    /\ stepped[2] = None

\* ============================================ claims on analyze-results.py
\* What the claims say about a table is stated on the text that was loaded:
\* the cell of a row in a named column, '' standing for an unset field.
InHeader == [i \in 1..Len(infile[1]) |-> infile[1][i].s]
InRows == IF infile = <<>> THEN <<>> ELSE Tail(infile)
Field(row, column) == row[IndexOf(InHeader, column)].s
Loaded ==
    /\ Len(infile) > 1
    /\ FetchResults(infile).error = ""
\* the rows that pass the BASE filter
BaseRows == {r \in 1..Len(InRows) : Field(InRows[r], "runtime") # ""}

\* C3: AGGREGATE prints as many rows as there are distinct (backend,
\* example, experiment) among the rows with a runtime, whatever their
\* example names.
C3_AggregateRowPerGroup ==
    (mpc = "done" /\ mode = "AGGREGATE" /\ outcome.status = "ok") =>
        Len(outcome.rows) =
            Cardinality({<<Field(InRows[r], "backend"), Field(InRows[r], "example"),
                           Field(InRows[r], "experiment")>> : r \in BaseRows})

\* the rows of a printed text, its header line left out
DataLines(text) == IF text = <<>> THEN {} ELSE Range(Tail(text))

\* C4: the text BASE prints can be loaded again, and BASE on it ends without
\* an exception and yields the same set of rows.
C4_BaseRoundTrip ==
    (mpc = "done" /\ reruns = 1) =>
        /\ outcome.status \in {"ok", "no data"}
        /\ DataLines(outcome.text) = DataLines(firstOut.text)

\* the rows a row is posed relative to
References(r) ==
    {q \in BaseRows :
        /\ Field(InRows[q], "backend") = "Postgres"
        /\ \A c \in Range(JoinColumns) :
              Field(InRows[r], c) # "" /\ Field(InRows[r], c) = Field(InRows[q], c)}
Identity(row) == [c \in {"backend"} \cup Range(JoinColumns) |-> Field(row, c)]
RECURSIVE SumOver(_, _)
SumOver(S, f) ==
    IF S = {} THEN 0
    ELSE LET x == CHOOSE y \in S : TRUE IN f[x] + SumOver(S \ {x}, f)
\* C7: in RELATIVE mode a row with a runtime yields one output row per row
\* with a runtime, backend 'Postgres' and the same example, experiment, split
\* and iteration, and none when there is no such row.
C7_RelativeRowPerReference ==
    (mpc = "done" /\ mode = "RELATIVE" /\ reruns = 0 /\ Loaded) =>
        /\ outcome.status = "ok"
        /\ \A r \in BaseRows :
              LET same == {q \in BaseRows : Identity(InRows[q]) = Identity(InRows[r])}
                  out == {i \in 1..Len(outcome.rows) :
                             \A c \in DOMAIN Identity(InRows[r]) :
                                 outcome.rows[i][c] =
                                     ConvertCell(c, PyStr(Field(InRows[r], c)))}
              IN  Cardinality(out) =
                      SumOver(same, [q \in same |-> Cardinality(References(q))])
        /\ Len(outcome.rows) =
              SumOver(BaseRows, [q \in BaseRows |-> Cardinality(References(q))])

\* ======================================================= claim on the whole
\* a log that is complete and whose last grounding-complete line is at 150
CompleteAt150(log) ==
    /\ ~ParseLog(log).raised
    /\ MemoryLines(log.lines) # {}
    /\ CompleteLines(log.lines) # {}
    /\ StampedLines(log.lines) # {}
    /\ ParseLog(log).results["runtime"] = PyInt(150)

\* C5: the parse output for a Postgres and a Dask log of the same run, both
\* with runtime 150, goes through RELATIVE without error and gives exactly
\* one row, the one of Dask, with relative_runtime 1.0.
C5_EndToEndRelative ==
    (ppc = "parsed" /\ mpc = "done" /\ mode = "RELATIVE"
       /\ \A i \in 1..Len(logs) : CompleteAt150(logs[i])) =>
        /\ outcome.status = "ok"
        /\ Len(outcome.rows) = 1
        /\ outcome.rows[1]["backend"] = PyStr("Dask")
        /\ outcome.rows[1]["relative_runtime"] = PyFloat(Frac(1, 1))

====
